---- MODULE Spec2Model ----
(***************************************************************************)
(* Session store (AuthProvider), navigation guard (RotaProtegida) and      *)
(* route table (RotasApp) of the Portal Academico front-end.               *)
(*                                                                         *)
(* JavaScript values are tagged records; the text kept in localStorage is  *)
(* a sequence of lexical tokens, so that JSON.stringify and JSON.parse are *)
(* two different computations whose round trip can be checked.             *)
(***************************************************************************)
EXTENDS Integers, Sequences, FiniteSets, TLC

VARIABLES
  localStorage,  \* the browser's storage, kept from one page load to the next
  usuario,       \* AuthProvider: useState(null)
  carregando,    \* AuthProvider: useState(true)
  pc,            \* position of AuthProvider's mount effect: "montando" before it ran, "pronto" after
  caminho,       \* the router's location, a sequence of path segments
  tela,          \* what the last render produced: the guard's decision and the element shown
  pendente,      \* POST /auth/login requests in flight
  chamadas,      \* history: the latest calls of restore, login and logout, oldest first
  cheio,         \* the storage's quota is used up: localStorage.setItem throws
  erro,          \* Login: useState(''), the inline message; '' while no Login is mounted
  carregandoLogin, \* Login: useState(false), true while the mounted Login awaits its request
  historico,     \* the browser's session history up to the current entry, oldest first
  servidor,      \* the ids of the sections the server holds
  pagina,        \* the state of the page mounted in the Outlet (ListaTurmas, FormularioTurma)
  rede           \* the pages' requests in flight and timers not yet fired, oldest first

vars == <<localStorage, usuario, carregando, pc, caminho, tela, pendente, chamadas,
          cheio, erro, carregandoLogin, historico, servidor, pagina, rede>>

(***************************************************************************)
(* JavaScript values                                                       *)
(***************************************************************************)
Nulo == [t |-> "null"]

Num(n) == [t |-> "number", n |-> n]

Str(s) == [t |-> "string", s |-> s]

Obj(campos) == [t |-> "object", campos |-> campos]

\* if (x) ... : null, 0 and "" are falsy, objects are truthy
Truthy(v) ==
  CASE v.t = "null" -> FALSE
    [] v.t = "number" -> v.n # 0
    [] v.t = "string" -> v.s # ""
    [] OTHER -> TRUE

\* obj?.chave : the value of the last field named chave, undefined (Nulo here) otherwise
Campo(v, chave) ==
  IF v.t = "object" /\ \E i \in 1..Len(v.campos) : v.campos[i][1] = chave
    THEN LET i == CHOOSE j \in 1..Len(v.campos) :
                    /\ v.campos[j][1] = chave
                    /\ \A k \in (j+1)..Len(v.campos) : v.campos[k][1] # chave
         IN v.campos[i][2]
    ELSE Nulo

(***************************************************************************)
(* JSON text: sequences of tokens                                          *)
(***************************************************************************)
Aspas == "\""

Digitos == <<"0", "1", "2", "3", "4", "5", "6", "7", "8", "9">>

EhDigito(tok) == \E i \in 1..Len(Digitos) : Digitos[i] = tok

ValorDigito(tok) == (CHOOSE i \in 1..Len(Digitos) : Digitos[i] = tok) - 1

\* mutant: strings are written without their quotes
TextoStringSemAspas(s) == <<s>>

TextoString(s) == IF s = "" THEN <<Aspas, Aspas>> ELSE <<Aspas, s, Aspas>>

TextoEscalar(v) ==
  CASE v.t = "null" -> <<"null">>
    [] v.t = "number" -> <<Digitos[v.n + 1]>>
    [] OTHER -> TextoString(v.s)

RECURSIVE TextoCampos(_)
TextoCampos(campos) ==
  IF campos = <<>> THEN <<>>
  ELSE TextoString(campos[1][1]) \o <<":">> \o TextoEscalar(campos[1][2])
       \o (IF Len(campos) = 1 THEN <<>> ELSE <<",">> \o TextoCampos(Tail(campos)))

\* JSON.stringify(v)
JSONstringify(v) ==
  IF v.t = "object" THEN <<"{">> \o TextoCampos(v.campos) \o <<"}">>
  ELSE TextoEscalar(v)

Falha == [ok |-> FALSE, valor |-> Nulo]

Sucesso(v) == [ok |-> TRUE, valor |-> v]

\* number of tokens of the scalar that starts the text, 0 when there is none
TamanhoEscalar[texto \in Seq(STRING)] ==
  IF texto = <<>> THEN 0
  ELSE IF texto[1] = "null" \/ EhDigito(texto[1]) THEN 1
  ELSE IF texto[1] = Aspas /\ Len(texto) >= 2 /\ texto[2] = Aspas THEN 2
  ELSE IF texto[1] = Aspas /\ Len(texto) >= 3 /\ texto[2] # Aspas /\ texto[3] = Aspas THEN 3
  ELSE 0

LerEscalar[texto \in Seq(STRING)] ==
  IF texto[1] = "null" THEN Nulo
  ELSE IF EhDigito(texto[1]) THEN Num(ValorDigito(texto[1]))
  ELSE IF texto[2] = Aspas THEN Str("")
  ELSE Str(texto[2])

\* the fields between the braces of an object: chave ":" valor ("," chave ":" valor)*
LerCampos[texto \in Seq(STRING)] ==
  LET nChave == TamanhoEscalar[texto]
  IN IF nChave < 2 \/ Len(texto) < nChave + 2 \/ texto[nChave + 1] # ":"
       THEN [ok |-> FALSE, campos |-> <<>>]
       ELSE LET depois == SubSeq(texto, nChave + 2, Len(texto))
                nValor == TamanhoEscalar[depois]
                par    == <<LerEscalar[texto].s, LerEscalar[depois]>>
                resto  == SubSeq(depois, nValor + 1, Len(depois))
            IN IF nValor = 0 THEN [ok |-> FALSE, campos |-> <<>>]
               ELSE IF resto = <<>> THEN [ok |-> TRUE, campos |-> <<par>>]
               ELSE IF resto[1] # "," THEN [ok |-> FALSE, campos |-> <<>>]
               ELSE LET r == LerCampos[Tail(resto)]
                    IN IF r.ok THEN [ok |-> TRUE, campos |-> <<par>> \o r.campos]
                       ELSE [ok |-> FALSE, campos |-> <<>>]

\* JSON.parse(texto): ok = FALSE stands for the SyntaxError it throws
JSONparse[texto \in Seq(STRING)] ==
  IF texto = <<>> THEN Falha
  ELSE IF TamanhoEscalar[texto] > 0
    THEN IF TamanhoEscalar[texto] = Len(texto) THEN Sucesso(LerEscalar[texto]) ELSE Falha
  ELSE IF texto[1] = "{" /\ Len(texto) >= 2 /\ texto[Len(texto)] = "}"
    THEN IF Len(texto) = 2 THEN Sucesso(Obj(<<>>))
         ELSE LET r == LerCampos[SubSeq(texto, 2, Len(texto) - 1)]
              IN IF r.ok THEN Sucesso(Obj(r.campos)) ELSE Falha
  ELSE Falha

(***************************************************************************)
(* localStorage: a function from the keys present to their text            *)
(***************************************************************************)
Chave == "usuario"

Vazio == <<>>

\* localStorage.getItem(k): null when the key is absent
getItem(ls, k) == IF k \in DOMAIN ls THEN [t |-> "texto", texto |-> ls[k]] ELSE Nulo

\* if (usuarioSalvo): a stored string is truthy unless it is empty
TextoTruthy(item) == item.t = "texto" /\ item.texto # <<>>

setItem(ls, k, texto) == [c \in (DOMAIN ls) \cup {k} |-> IF c = k THEN texto ELSE ls[c]]

removeItem(ls, k) == [c \in (DOMAIN ls) \ {k} |-> ls[c]]

(***************************************************************************)
(* Bounds and input sets                                                   *)
(***************************************************************************)
\* number of login requests that may be in flight at once
MaxPendentes == 1

\* number of calls the history keeps
Janela == 2

\* number of entries the session history keeps, the oldest dropped beyond it
MaxHistorico == 3

\* number of segments of the addresses the route table is tried on
MaxSegmentos == 3

\* number of requests and timers of the pages that may be pending at once
MaxRede == 2

\* identities the server issues on POST /auth/login
Professor == Obj(<< <<"id", Num(1)>>, <<"tipoUsuario", Str("PROFESSOR")>>, <<"departamento", Str("DC")>> >>)

Academico == Obj(<< <<"id", Num(2)>>, <<"tipoUsuario", Str("ACADEMICO")>>, <<"matricula", Str("M2")>> >>)

Identidades == {Professor, Academico}

\* texts a previous run, or the user by hand, may have left under the key
TextosMalformados ==
  { <<>>,                         \* the empty string
    <<"null">>, <<"0">>, <<"7">>, \* JSON, but not an object
    <<Aspas, "x", Aspas>>,        \* a JSON string
    <<"{", "}">>,                 \* an object with no field
    <<"{">>,                      \* truncated
    <<"{", Aspas, "id", Aspas, ":", "1", ",", "}">>,
    <<"undefined">> }

TextosIniciais == {JSONstringify(i) : i \in Identidades} \cup TextosMalformados

ArmazenamentosIniciais == {Vazio} \cup {setItem(Vazio, Chave, txt) : txt \in TextosIniciais}

IdsTurma == {"1"}

Raiz == <<>>

SelecionarTipoPath == <<"selecionar-tipo">>

Caminhos ==
  { Raiz, SelecionarTipoPath, <<"login", "professor">>, <<"login", "academico">>,
    <<"turma", "nova">>, <<"inexistente">> }
  \cup {<<"turma", "editar", id>> : id \in IdsTurma}
  \cup {<<"turma", "comunicacao", id>> : id \in IdsTurma}

(***************************************************************************)
(* AuthProvider: role predicates                                           *)
(***************************************************************************)
ehProfessor(u) == Campo(u, "tipoUsuario") = Str("PROFESSOR")

\* mutant: whoever has a role counts as a student
ehAcademicoTemTipo(u) == Campo(u, "tipoUsuario") # Nulo

ehAcademico(u) == Campo(u, "tipoUsuario") = Str("ACADEMICO")

(***************************************************************************)
(* Route table and rendering                                               *)
(***************************************************************************)
\* s.toLowerCase(), on the strings that occur
toLowerCase(s) ==
  CASE s = "PROFESSOR" -> "professor"
    [] s = "ACADEMICO" -> "academico"
    [] s = "LOGIN" -> "login"
    [] s = "Turma" -> "turma"
    [] OTHER -> s

Lit(s) == [k |-> "lit", s |-> s]

Param == [k |-> "param"]

Splat == [k |-> "splat"]

\* the <Route>s of <Routes>, the children of path="/" joined to their parent
Rotas ==
  << [nome |-> "/selecionar-tipo", padrao |-> <<Lit("selecionar-tipo")>>, index |-> FALSE],
     [nome |-> "/login/:tipo", padrao |-> <<Lit("login"), Param>>, index |-> FALSE],
     [nome |-> "index", padrao |-> <<>>, index |-> TRUE],
     [nome |-> "turma/nova", padrao |-> <<Lit("turma"), Lit("nova")>>, index |-> FALSE],
     [nome |-> "turma/editar/:idTurma", padrao |-> <<Lit("turma"), Lit("editar"), Param>>,
      index |-> FALSE],
     [nome |-> "*", padrao |-> <<Splat>>, index |-> FALSE] >>

\* the router ignores slashes at the end of the address
RECURSIVE Normalizar(_)
Normalizar(p) ==
  IF p # <<>> /\ p[Len(p)] = "" THEN Normalizar(SubSeq(p, 1, Len(p) - 1)) ELSE p

\* a literal matches its own text whatever the case (no caseSensitive on the
\* <Route>s), a parameter any segment that is not empty
SegmentoCasa(e, seg) ==
  CASE e.k = "lit" -> toLowerCase(seg) = e.s
    [] e.k = "param" -> seg # ""
    [] OTHER -> TRUE

Casa(padrao, p) ==
  IF padrao # <<>> /\ padrao[Len(padrao)].k = "splat"
    THEN /\ Len(p) >= Len(padrao) - 1
         /\ \A i \in 1..(Len(padrao) - 1) : SegmentoCasa(padrao[i], p[i])
    ELSE /\ Len(p) = Len(padrao)
         /\ \A i \in 1..Len(padrao) : SegmentoCasa(padrao[i], p[i])

\* the router's rank of a route: literals weigh more than parameters, a
\* splat costs, an index route gains
RECURSIVE PontosSegmentos(_)
PontosSegmentos(padrao) ==
  IF padrao = <<>> THEN 0
  ELSE (CASE padrao[1].k = "lit" -> 10 [] padrao[1].k = "param" -> 3 [] OTHER -> 0)
       + PontosSegmentos(Tail(padrao))

\* mutant: a splat outranks every other route
PontosSplatGanha(r) ==
  IF \E i \in 1..Len(r.padrao) : r.padrao[i].k = "splat" THEN 100
  ELSE Len(r.padrao) + PontosSegmentos(r.padrao)

Pontos(r) ==
  Len(r.padrao) + PontosSegmentos(r.padrao)
  + (IF r.index THEN 2 ELSE 0)
  - (IF \E i \in 1..Len(r.padrao) : r.padrao[i].k = "splat" THEN 2 ELSE 0)

\* the <Route> <Routes> picks for the path: among those that match, the one
\* of highest rank, the first declared among equals; "*" is the fallback
CasarRota(p) ==
  LET q == Normalizar(p)
      rotas == Rotas
      casam == {i \in 1..Len(rotas) : Casa(rotas[i].padrao, q)}
      melhor == CHOOSE i \in casam :
                  \A j \in casam :
                    \/ Pontos(rotas[j]) < Pontos(rotas[i])
                    \/ Pontos(rotas[j]) = Pontos(rotas[i]) /\ i <= j
  IN rotas[melhor].nome

\* routes nested under the guarded parent <Route path="/">
Protegida(rota) == rota \in {"index", "turma/nova", "turma/editar/:idTurma"}

\* mutant: <Navigate> without replace
NavigateSemReplace(to) == [pagina |-> "Navigate", to |-> to, replace |-> FALSE]

Navigate(to) == [pagina |-> "Navigate", to |-> to, replace |-> TRUE]

Spinner == [pagina |-> "Carregando"]

\* mutant: the identity is tested before carregando
RotaProtegidaUsuarioPrimeiro(u, c) ==
  IF ~Truthy(u) THEN "REDIRECT"
  ELSE IF c THEN "SHOW_LOADING"
  ELSE "RENDER"

\* mutant: the guard lets only teachers through
RotaProtegidaSoProfessor(u, c) ==
  IF c THEN "SHOW_LOADING"
  ELSE IF ~ehProfessor(u) THEN "REDIRECT"
  ELSE "RENDER"

\* mutant: the guard never redirects
RotaProtegidaSemRedirect(u, c) ==
  IF c THEN "SHOW_LOADING"
  ELSE "RENDER"

\* the decision of the guard for one evaluation
RotaProtegida(u, c) ==
  IF c THEN "SHOW_LOADING"
  ELSE IF ~Truthy(u) THEN "REDIRECT"
  ELSE "RENDER"

\* mutant: the form is rendered for everybody
FormularioTurmaSemGuarda(u) == [pagina |-> "FormularioTurma", corpo |-> TRUE]

\* FormularioTurma returns null unless the user is a teacher
FormularioTurma(u) == [pagina |-> "FormularioTurma", corpo |-> ~(~Truthy(u) \/ ~ehProfessor(u))]

ListaTurmas(u) == [pagina |-> "ListaTurmas", professor |-> ehProfessor(u), academico |-> ehAcademico(u)]

\* the element a child route puts in the <Outlet/>
Outlet(rota, u) == IF rota = "index" THEN ListaTurmas(u) ELSE FormularioTurma(u)

LayoutBase(rota, u) ==
  [pagina |-> "LayoutBase",
   linkCriar |-> Truthy(u) /\ ehProfessor(u),
   sair |-> Truthy(u),
   outlet |-> Outlet(rota, u)]

\* mutant: only the index route is wrapped in the guard, the other children
\* of the parent route are rendered without it
RenderizarFilhosSemGuarda(u, c, p) ==
  LET rota == CasarRota(p)
  IN IF rota = "index"
       THEN LET d == RotaProtegida(u, c)
            IN [guarda |-> d,
                elemento |-> CASE d = "SHOW_LOADING" -> Spinner
                               [] d = "REDIRECT" -> Navigate(SelecionarTipoPath)
                               [] OTHER -> LayoutBase(rota, u)]
       ELSE [guarda |-> "NENHUMA",
             elemento |-> CASE rota = "/selecionar-tipo" -> [pagina |-> "SelecionarTipo"]
                            [] rota = "/login/:tipo" -> [pagina |-> "Login", tipo |-> p[2]]
                            [] Protegida(rota) -> LayoutBase(rota, u)
                            [] OTHER -> Navigate(Raiz)]

\* what <Routes> renders for a path: the guard's decision (NENHUMA when the
\* route is not wrapped in the guard) and the element shown
Renderizar(u, c, p) ==
  LET rota == CasarRota(p)
  IN IF Protegida(rota)
       THEN LET d == RotaProtegida(u, c)
            IN [guarda |-> d,
                elemento |-> CASE d = "SHOW_LOADING" -> Spinner
                               [] d = "REDIRECT" -> Navigate(SelecionarTipoPath)
                               [] OTHER -> LayoutBase(rota, u)]
       ELSE [guarda |-> "NENHUMA",
             elemento |-> CASE rota = "/selecionar-tipo" -> [pagina |-> "SelecionarTipo"]
                            [] rota = "/login/:tipo" -> [pagina |-> "Login", tipo |-> p[2]]
                            [] OTHER -> Navigate(Raiz)]

\* the <Link>s and navigate buttons a rendered screen offers
Links(t) ==
  CASE t.elemento.pagina = "Login" -> {SelecionarTipoPath}
    [] t.elemento.pagina = "LayoutBase" ->
         {Raiz}
         \cup (IF t.elemento.linkCriar THEN {<<"turma", "nova">>} ELSE {})
         \cup (IF ~t.elemento.sair THEN {SelecionarTipoPath} ELSE {})
         \cup (IF t.elemento.outlet.pagina = "ListaTurmas"
                 THEN {<<"turma", "comunicacao", id>> : id \in IdsTurma}
                      \cup (IF t.elemento.outlet.professor
                              THEN {<<"turma", "nova">>} \cup {<<"turma", "editar", id>> : id \in IdsTurma}
                              ELSE {})
                 ELSE {})
    [] OTHER -> {}

(***************************************************************************)
(* The pages mounted in the Outlet                                         *)
(***************************************************************************)
\* the route whose page is mounted, "Nenhuma" when the layout is not shown
ChaveDaPagina(p, t) == IF t.elemento.pagina = "LayoutBase" THEN CasarRota(p) ELSE "Nenhuma"

SemPagina == [tipo |-> "Nenhuma"]

\* no request of the page issued yet
SemPedido == [estado |-> "nenhum", dados |-> {}]

\* the state a page starts with: ListaTurmas' and FormularioTurma's useState;
\* montada tells whether the mount effect has run, ultima is the outcome of
\* the list request issued last
PaginaNova(chave) ==
  CASE chave = "index" ->
         [tipo |-> "ListaTurmas", montada |-> FALSE, turmas |-> {}, loading |-> TRUE,
          erro |-> FALSE, termoBusca |-> "", ultima |-> SemPedido]
    [] chave \in {"turma/nova", "turma/editar/:idTurma"} ->
         [tipo |-> "FormularioTurma", montada |-> FALSE, carregando |-> FALSE,
          feedback |-> ""]
    [] OTHER -> SemPagina

\* what an unmounted page left pending and can still act: a delete changes
\* the server and a submit ends in navigate; the answers and timers that
\* only call setState of the unmounted page do nothing and are dropped
SobreviveAPagina(it) == it.op \in {"excluir", "salvar", "timerNavegar"}

\* the pending requests and timers after the page that issued them is unmounted
Orfaos(r) ==
  LET s == SelectSeq(r, SobreviveAPagina)
  IN  [i \in 1..Len(s) |-> [s[i] EXCEPT !.orfao = TRUE, !.ultimo = FALSE]]

\* after a render: the page stays while its route stays, otherwise it is
\* unmounted and the page of the new route starts afresh
Remontar ==
  IF ChaveDaPagina(caminho, tela) = ChaveDaPagina(caminho', tela')
    THEN UNCHANGED <<pagina, rede>>
    ELSE /\ pagina' = PaginaNova(ChaveDaPagina(caminho', tela'))
         /\ rede' = Orfaos(rede)

(***************************************************************************)
(* State after construction: useState(null), useState(true), first render  *)
(***************************************************************************)
\* everything but the storage's quota
Montagem ==
  /\ localStorage \in ArmazenamentosIniciais
  /\ usuario = Nulo
  /\ carregando = TRUE
  /\ pc = "montando"
  /\ caminho \in Caminhos
  /\ tela = Renderizar(Nulo, TRUE, caminho)
  /\ pendente = 0
  /\ chamadas = <<>>
  /\ erro = ""
  /\ carregandoLogin = FALSE
  /\ historico = <<caminho>>
  /\ pagina = SemPagina
  /\ rede = <<>>

\* normal conditions: the storage accepts writes
Init == cheio = FALSE /\ servidor = IdsTurma /\ Montagem

\* the storage may refuse writes (quota used up, private browsing)
InitCota == cheio \in BOOLEAN /\ servidor = IdsTurma /\ Montagem

(***************************************************************************)
(* The browser's session history                                           *)
(***************************************************************************)
\* history.pushState: a new entry after the current one
Empilhar(h, p) == IF Len(h) < MaxHistorico THEN Append(h, p) ELSE Append(Tail(h), p)

\* history.replaceState: the current entry is overwritten
Substituir(h, p) == [h EXCEPT ![Len(h)] = p]

(***************************************************************************)
(* AuthProvider                                                            *)
(***************************************************************************)
\* the history with one more call, the oldest dropped when the window is full
Registrar(h, c) == IF Len(h) < Janela THEN Append(h, c) ELSE Append(Tail(h), c)

\* mutant: the stored identity is never applied
RestaurarUsuarioIgnoraSalvo(ls, u) == u

\* the identity the mount effect leaves in memory
RestaurarUsuario(ls, u) ==
  LET usuarioSalvo == getItem(ls, Chave)
  IN IF TextoTruthy(usuarioSalvo) /\ JSONparse[usuarioSalvo.texto].ok
       THEN JSONparse[usuarioSalvo.texto].valor
       ELSE u

\* the storage the mount effect leaves
RestaurarStorage(ls) ==
  LET usuarioSalvo == getItem(ls, Chave)
  IN IF TextoTruthy(usuarioSalvo) /\ ~JSONparse[usuarioSalvo.texto].ok
       THEN removeItem(ls, Chave)
       ELSE ls

\* mutant: no try/catch, a text that does not parse ends the effect early
restoreSemCatch ==
  LET usuarioSalvo == getItem(localStorage, Chave)
      lancou == TextoTruthy(usuarioSalvo) /\ ~JSONparse[usuarioSalvo.texto].ok
  IN /\ pc = "montando"
     /\ usuario' = RestaurarUsuario(localStorage, usuario)
     /\ localStorage' = localStorage
     /\ carregando' = (IF lancou THEN carregando ELSE FALSE)
     /\ pc' = "pronto"
     /\ tela' = Renderizar(usuario', carregando', caminho)
     /\ chamadas' = Registrar(chamadas, [op |-> "restore"])
     /\ UNCHANGED <<caminho, pendente, cheio, erro, carregandoLogin, historico, servidor>>
     /\ Remontar

\* useEffect(() => {...}, []): runs once, after the first render
restore ==
  /\ pc = "montando"
  /\ usuario' = RestaurarUsuario(localStorage, usuario)
  /\ localStorage' = RestaurarStorage(localStorage)
  /\ carregando' = FALSE
  /\ pc' = "pronto"
  /\ tela' = Renderizar(usuario', carregando', caminho)
  /\ chamadas' = Registrar(chamadas, [op |-> "restore"])
  /\ UNCHANGED <<caminho, pendente, cheio, erro, carregandoLogin, historico, servidor>>
  /\ Remontar

\* mutant: the identity is kept in memory only
loginSemPersistir(dadosUsuario) ==
  /\ usuario' = dadosUsuario
  /\ localStorage' = localStorage
  /\ chamadas' = Registrar(chamadas, [op |-> "login", dadosUsuario |-> dadosUsuario])

\* setUsuario, then localStorage.setItem, which throws when the storage is
\* full: the identity is in memory by then and the exception leaves login
login(dadosUsuario) ==
  /\ usuario' = dadosUsuario
  /\ localStorage' = IF cheio THEN localStorage
                     ELSE setItem(localStorage, Chave, JSONstringify(dadosUsuario))
  /\ chamadas' = Registrar(chamadas, [op |-> "login", dadosUsuario |-> dadosUsuario])

\* mutant: the key is left in the storage
logoutSemRemover ==
  /\ usuario' = Nulo
  /\ localStorage' = localStorage
  /\ chamadas' = Registrar(chamadas, [op |-> "logout"])

logout ==
  /\ usuario' = Nulo
  /\ localStorage' = removeItem(localStorage, Chave)
  /\ chamadas' = Registrar(chamadas, [op |-> "logout"])

(***************************************************************************)
(* Effects of rendered elements                                            *)
(***************************************************************************)
\* <Navigate to=... replace/>: navigates once it is rendered
NavigateEfeito ==
  /\ tela.elemento.pagina = "Navigate"
  /\ caminho' = tela.elemento.to
  /\ historico' = (IF tela.elemento.replace THEN Substituir(historico, caminho')
                   ELSE Empilhar(historico, caminho'))
  /\ tela' = Renderizar(usuario, carregando, caminho')
  /\ UNCHANGED <<localStorage, usuario, carregando, pc, pendente, chamadas,
                 cheio, erro, carregandoLogin, servidor>>
  /\ Remontar

\* mutant: the form's effect sends to the type-selection screen
FormularioTurmaEfeitoParaSelecao ==
  /\ tela.elemento.pagina = "LayoutBase"
  /\ tela.elemento.outlet.pagina = "FormularioTurma"
  /\ ~Truthy(usuario) \/ ~ehProfessor(usuario)
  /\ caminho' = SelecionarTipoPath
  /\ historico' = Empilhar(historico, caminho')
  /\ tela' = Renderizar(usuario, carregando, caminho')
  /\ UNCHANGED <<localStorage, usuario, carregando, pc, pendente, chamadas,
                 cheio, erro, carregandoLogin, servidor>>
  /\ Remontar

\* FormularioTurma's effect: anyone but a teacher is sent to the root path
FormularioTurmaEfeito ==
  /\ tela.elemento.pagina = "LayoutBase"
  /\ tela.elemento.outlet.pagina = "FormularioTurma"
  /\ ~Truthy(usuario) \/ ~ehProfessor(usuario)
  /\ caminho' = Raiz
  /\ historico' = Empilhar(historico, caminho')
  /\ tela' = Renderizar(usuario, carregando, caminho')
  /\ UNCHANGED <<localStorage, usuario, carregando, pc, pendente, chamadas,
                 cheio, erro, carregandoLogin, servidor>>
  /\ Remontar

\* the last render left an effect to run: React runs it before it handles
\* the next event of the user
EfeitoPendente ==
  \/ tela.elemento.pagina = "Navigate"
  \/ /\ tela.elemento.pagina = "LayoutBase"
     /\ tela.elemento.outlet.pagina = "FormularioTurma"
     /\ ~Truthy(usuario) \/ ~ehProfessor(usuario)

(***************************************************************************)
(* User events: handled only once the effects of the last render have run  *)
(***************************************************************************)
selecionarTipo(tipo) ==
  /\ pc = "pronto"
  /\ tela.elemento.pagina = "SelecionarTipo"
  /\ caminho' = <<"login", toLowerCase(tipo)>>
  /\ historico' = Empilhar(historico, caminho')
  /\ tela' = Renderizar(usuario, carregando, caminho')
  /\ UNCHANGED <<localStorage, usuario, carregando, pc, pendente, chamadas,
                 cheio, erro, carregandoLogin, servidor>>
  /\ Remontar

\* the messages Login shows (accents dropped)
Msg401 == "Email, senha ou tipo de usuario incorretos"

MsgServidor == "Erro ao conectar com o servidor"

\* what the request may end with when it fails: an HTTP status, 0 for no response
StatusDeErro == {401, 500, 0}

\* Login.handleSubmit up to the await: the message is cleared, the button is
\* disabled and the request leaves
handleSubmit ==
  /\ pc = "pronto"
  /\ tela.elemento.pagina = "Login"
  /\ ~carregandoLogin
  /\ pendente < MaxPendentes
  /\ pendente' = pendente + 1
  /\ erro' = ""
  /\ carregandoLogin' = TRUE
  /\ UNCHANGED <<localStorage, usuario, carregando, pc, caminho, tela, chamadas,
                 cheio, historico,
                 servidor, pagina, rede>>

\* the request that ends is the one of the mounted Login (montado), or one
\* whose Login has been unmounted since
RespostaDe(montado) ==
  /\ pendente > 0
  /\ IF montado THEN carregandoLogin
     ELSE pendente > (IF carregandoLogin THEN 1 ELSE 0)

\* Login.handleSubmit after the await, the server answered with an identity:
\* login(resposta.data), navigate('/'); an exception of login lands in the
\* catch block, which skips navigate and sets the message; finally
handleSubmitSucesso(dados, montado) ==
  /\ RespostaDe(montado)
  /\ login(dados)
  /\ pendente' = pendente - 1
  /\ IF cheio
       THEN /\ UNCHANGED <<caminho, historico>>
            /\ erro' = (IF montado THEN MsgServidor ELSE erro)
            /\ carregandoLogin' = (IF montado THEN FALSE ELSE carregandoLogin)
       ELSE /\ caminho' = Raiz
            /\ historico' = Empilhar(historico, caminho')
            /\ erro' = ""
            /\ carregandoLogin' = FALSE
  /\ tela' = Renderizar(usuario', carregando, caminho')
  /\ UNCHANGED <<carregando, pc, cheio, servidor>>
  /\ Remontar

\* mutant: a failed request also ends the session
handleSubmitErroSai(status, montado) ==
  /\ RespostaDe(montado)
  /\ pendente' = pendente - 1
  /\ logout
  /\ erro' = (IF ~montado THEN erro ELSE IF status = 401 THEN Msg401 ELSE MsgServidor)
  /\ carregandoLogin' = (IF montado THEN FALSE ELSE carregandoLogin)
  /\ UNCHANGED <<carregando, pc, caminho, tela, cheio, historico,
                 servidor, pagina, rede>>

\* Login.handleSubmit after the await, the request failed: catch, finally;
\* setErro and setCarregando do nothing once the Login is unmounted
handleSubmitErro(status, montado) ==
  /\ RespostaDe(montado)
  /\ pendente' = pendente - 1
  /\ erro' = (IF ~montado THEN erro ELSE IF status = 401 THEN Msg401 ELSE MsgServidor)
  /\ carregandoLogin' = (IF montado THEN FALSE ELSE carregandoLogin)
  /\ UNCHANGED <<localStorage, usuario, carregando, pc, caminho, tela, chamadas,
                 cheio, historico,
                 servidor, pagina, rede>>

\* mutant: logging out starts the loading phase again
handleLogoutReinicia ==
  /\ pc = "pronto"
  /\ ~EfeitoPendente
  /\ tela.elemento.pagina = "LayoutBase"
  /\ tela.elemento.sair
  /\ logout
  /\ carregando' = TRUE
  /\ caminho' = SelecionarTipoPath
  /\ historico' = Empilhar(historico, caminho')
  /\ tela' = Renderizar(usuario', carregando', caminho')
  /\ UNCHANGED <<pc, pendente, cheio, erro, carregandoLogin, servidor>>
  /\ Remontar

\* LayoutBase.handleLogout
handleLogout ==
  /\ pc = "pronto"
  /\ ~EfeitoPendente
  /\ tela.elemento.pagina = "LayoutBase"
  /\ tela.elemento.sair
  /\ logout
  /\ caminho' = SelecionarTipoPath
  /\ historico' = Empilhar(historico, caminho')
  /\ tela' = Renderizar(usuario', carregando, caminho')
  /\ UNCHANGED <<carregando, pc, pendente, cheio, erro, carregandoLogin, servidor>>
  /\ Remontar

\* the Login's state lives as long as a Login is shown
ErroApos(t) == IF t.elemento.pagina = "Login" THEN erro ELSE ""

CarregandoLoginApos(t) == t.elemento.pagina = "Login" /\ carregandoLogin

\* a click on a <Link> of the screen: a new entry, unless it leads to the
\* current address
Link(to) ==
  /\ pc = "pronto"
  /\ ~EfeitoPendente
  /\ to \in Links(tela)
  /\ caminho' = to
  /\ historico' = (IF to = caminho THEN historico ELSE Empilhar(historico, to))
  /\ tela' = Renderizar(usuario, carregando, caminho')
  /\ erro' = ErroApos(tela')
  /\ carregandoLogin' = CarregandoLoginApos(tela')
  /\ UNCHANGED <<localStorage, usuario, carregando, pc, pendente, chamadas, cheio, servidor>>
  /\ Remontar

\* the browser's back button: the router follows the previous entry
Voltar ==
  /\ pc = "pronto"
  /\ ~EfeitoPendente
  /\ Len(historico) > 1
  /\ historico' = SubSeq(historico, 1, Len(historico) - 1)
  /\ caminho' = historico'[Len(historico')]
  /\ tela' = Renderizar(usuario, carregando, caminho')
  /\ erro' = ErroApos(tela')
  /\ carregandoLogin' = CarregandoLoginApos(tela')
  /\ UNCHANGED <<localStorage, usuario, carregando, pc, pendente, chamadas, cheio, servidor>>
  /\ Remontar

\* the address is opened in a new tab: a new process and a new history, the
\* storage stays
Recarregar(p) ==
  /\ usuario' = Nulo
  /\ carregando' = TRUE
  /\ pc' = "montando"
  /\ caminho' = p
  /\ historico' = <<p>>
  /\ pendente' = 0
  /\ erro' = ""
  /\ carregandoLogin' = FALSE
  /\ tela' = Renderizar(usuario', carregando', caminho')
  /\ pagina' = PaginaNova(ChaveDaPagina(caminho', tela'))
  /\ rede' = <<>>
  /\ UNCHANGED <<localStorage, chamadas, cheio, servidor>>

(***************************************************************************)
(* ListaTurmas                                                             *)
(***************************************************************************)
\* what the pages' handlers leave alone: the session and the Login
varsSessao == <<localStorage, usuario, carregando, pc, pendente, chamadas, cheio,
                erro, carregandoLogin>>

\* the location, the screen and the history
varsRota == <<caminho, tela, historico>>

\* the search terms the user types
Termos == {"", "zzz"}

\* the names of the sections
NomeDaTurma == [id \in IdsTurma |-> "web"]

\* GET /turmas
listarTodas(srv) == srv

\* GET /turmas/buscar?nome=...
buscarPorNome(srv, nome) == {id \in srv : NomeDaTurma[id] = nome}

\* the answer of the server to a list request
DadosDe(it, srv) ==
  IF it.op = "buscarPorNome" THEN buscarPorNome(srv, it.termo) ELSE listarTodas(srv)

Remover(r, i) == SubSeq(r, 1, i - 1) \o SubSeq(r, i + 1, Len(r))

\* a request or a timer of the mounted page
Item(op, termo, id) == [op |-> op, termo |-> termo, id |-> id, orfao |-> FALSE, ultimo |-> FALSE]

\* carregarTurmas, the request: termoBusca ? buscarPorNome(termoBusca) : listarTodas()
PedidoDeLista(termo, orfao) ==
  [op |-> IF termo # "" THEN "buscarPorNome" ELSE "listarTodas",
   termo |-> termo, id |-> "", orfao |-> orfao, ultimo |-> ~orfao]

\* the requests in flight after carregarTurmas ran with termo in its closure
EmitirLista(r, termo, orfao) ==
  IF orfao THEN r
  ELSE Append([i \in 1..Len(r) |-> [r[i] EXCEPT !.ultimo = FALSE]], PedidoDeLista(termo, orfao))

\* carregarTurmas, up to the await: setLoading(true), setErro(null)
PaginaCarregando(pg, orfao) ==
  IF orfao THEN pg
  ELSE [pg EXCEPT !.loading = TRUE, !.erro = FALSE,
                  !.ultima = [estado |-> "pendente", dados |-> {}]]

\* useEffect(() => { carregarTurmas(); }, [])
ListaTurmasEfeito ==
  /\ pagina.tipo = "ListaTurmas"
  /\ ~pagina.montada
  /\ Len(rede) < MaxRede
  /\ pagina' = [PaginaCarregando(pagina, FALSE) EXCEPT !.montada = TRUE]
  /\ rede' = EmitirLista(rede, pagina.termoBusca, FALSE)
  /\ UNCHANGED <<varsSessao, varsRota, servidor>>

\* onChange of the search field: setTermoBusca
digitar(termo) ==
  /\ pagina.tipo = "ListaTurmas"
  /\ pagina.montada
  /\ termo # pagina.termoBusca
  /\ pagina' = [pagina EXCEPT !.termoBusca = termo]
  /\ UNCHANGED <<varsSessao, varsRota, servidor, rede>>

\* the Buscar button and the Enter key: carregarTurmas of the current render
buscar ==
  /\ pagina.tipo = "ListaTurmas"
  /\ pagina.montada
  /\ Len(rede) < MaxRede
  /\ pagina' = PaginaCarregando(pagina, FALSE)
  /\ rede' = EmitirLista(rede, pagina.termoBusca, FALSE)
  /\ UNCHANGED <<varsSessao, varsRota, servidor>>

\* the Limpar button: setTermoBusca(''), setTimeout(carregarTurmas, 100); the
\* carregarTurmas handed to the timer is the one of the render of the click
limpar ==
  /\ pagina.tipo = "ListaTurmas"
  /\ pagina.montada
  /\ pagina.termoBusca # ""
  /\ Len(rede) < MaxRede
  /\ pagina' = [pagina EXCEPT !.termoBusca = ""]
  /\ rede' = Append(rede, Item("timerLimpar", pagina.termoBusca, ""))
  /\ UNCHANGED <<varsSessao, varsRota, servidor>>

\* the timer of Limpar fires
timerLimpar(i) ==
  /\ i \in 1..Len(rede)
  /\ rede[i].op = "timerLimpar"
  /\ pagina' = PaginaCarregando(pagina, rede[i].orfao)
  /\ rede' = EmitirLista(Remover(rede, i), rede[i].termo, rede[i].orfao)
  /\ UNCHANGED <<varsSessao, varsRota, servidor>>

\* mutant: a failed request empties the list
PaginaAposListaEsvazia(pg, it, ok, dados) ==
  IF it.orfao THEN pg
  ELSE [pg EXCEPT !.turmas = (IF ok THEN dados ELSE {}),
                  !.erro = (IF ok THEN @ ELSE TRUE),
                  !.loading = FALSE,
                  !.ultima = (IF ~it.ultimo THEN @
                              ELSE IF ok THEN [estado |-> "ok", dados |-> dados]
                              ELSE [estado |-> "falhou", dados |-> {}])]

\* carregarTurmas after the await: setTurmas(resposta.data) or setErro(...),
\* then setLoading(false)
PaginaAposLista(pg, it, ok, dados) ==
  IF it.orfao THEN pg
  ELSE [pg EXCEPT !.turmas = (IF ok THEN dados ELSE @),
                  !.erro = (IF ok THEN @ ELSE TRUE),
                  !.loading = FALSE,
                  !.ultima = (IF ~it.ultimo THEN @
                              ELSE IF ok THEN [estado |-> "ok", dados |-> dados]
                              ELSE [estado |-> "falhou", dados |-> {}])]

\* the answer to a list request arrives
respostaLista(i, ok) ==
  /\ i \in 1..Len(rede)
  /\ rede[i].op \in {"listarTodas", "buscarPorNome"}
  /\ pagina' = PaginaAposLista(pagina, rede[i], ok, DadosDe(rede[i], servidor))
  /\ rede' = Remover(rede, i)
  /\ UNCHANGED <<varsSessao, varsRota, servidor>>

\* the cards are on the screen: !loading && !erro, one card for each section
CardVisivel(id) ==
  /\ pagina.tipo = "ListaTurmas"
  /\ pagina.montada
  /\ ~pagina.loading /\ ~pagina.erro
  /\ id \in pagina.turmas

\* mutant: the request leaves whatever confirm() answers
lidarComExclusaoSemConfirmar(id, confirma) ==
  /\ CardVisivel(id)
  /\ tela.elemento.outlet.professor
  /\ Len(rede) < MaxRede
  /\ rede' = Append(rede, Item("excluir", pagina.termoBusca, id))
  /\ UNCHANGED <<varsSessao, varsRota, servidor, pagina>>

\* lidarComExclusao up to the await: window.confirm, then DELETE /turmas/id
lidarComExclusao(id, confirma) ==
  /\ CardVisivel(id)
  /\ tela.elemento.outlet.professor
  /\ Len(rede) < MaxRede
  /\ rede' = (IF confirma THEN Append(rede, Item("excluir", pagina.termoBusca, id)) ELSE rede)
  /\ UNCHANGED <<varsSessao, varsRota, servidor, pagina>>

\* mutant: a refused delete also drops the stored session
respostaExcluirLimpaSessao(i, ok) ==
  /\ i \in 1..Len(rede)
  /\ rede[i].op = "excluir"
  /\ IF ok
       THEN /\ servidor' = servidor \ {rede[i].id}
            /\ pagina' = PaginaCarregando(pagina, rede[i].orfao)
            /\ rede' = EmitirLista(Remover(rede, i), rede[i].termo, rede[i].orfao)
            /\ UNCHANGED localStorage
       ELSE /\ rede' = Remover(rede, i)
            /\ localStorage' = removeItem(localStorage, Chave)
            /\ UNCHANGED <<servidor, pagina>>
  /\ UNCHANGED <<usuario, carregando, pc, pendente, chamadas, cheio, erro, carregandoLogin, varsRota>>

\* lidarComExclusao after the await: on success the section is gone from the
\* server and carregarTurmas of the render of the click runs
respostaExcluir(i, ok) ==
  /\ i \in 1..Len(rede)
  /\ rede[i].op = "excluir"
  /\ IF ok
       THEN /\ servidor' = servidor \ {rede[i].id}
            /\ pagina' = PaginaCarregando(pagina, rede[i].orfao)
            /\ rede' = EmitirLista(Remover(rede, i), rede[i].termo, rede[i].orfao)
       ELSE /\ rede' = Remover(rede, i)
            /\ UNCHANGED <<servidor, pagina>>
  /\ UNCHANGED <<varsSessao, varsRota>>

\* lidarComMatricula up to the await
lidarComMatricula(id) ==
  /\ CardVisivel(id)
  /\ tela.elemento.outlet.academico
  /\ Truthy(usuario)
  /\ Len(rede) < MaxRede
  /\ rede' = Append(rede, Item("matricular", pagina.termoBusca, id))
  /\ UNCHANGED <<varsSessao, varsRota, servidor, pagina>>

\* lidarComMatricula after the await
respostaMatricula(i, ok) ==
  /\ i \in 1..Len(rede)
  /\ rede[i].op = "matricular"
  /\ IF ok
       THEN /\ pagina' = PaginaCarregando(pagina, rede[i].orfao)
            /\ rede' = EmitirLista(Remover(rede, i), rede[i].termo, rede[i].orfao)
       ELSE /\ rede' = Remover(rede, i)
            /\ UNCHANGED pagina
  /\ UNCHANGED <<varsSessao, varsRota, servidor>>

(***************************************************************************)
(* FormularioTurma                                                         *)
(***************************************************************************)
\* the effect that loads the section in edit mode: if (modoEdicao && usuario)
FormularioTurmaCarregar ==
  /\ pagina.tipo = "FormularioTurma"
  /\ ~pagina.montada
  /\ IF CasarRota(caminho) = "turma/editar/:idTurma" /\ Truthy(usuario)
       THEN /\ Len(rede) < MaxRede
            /\ pagina' = [pagina EXCEPT !.montada = TRUE, !.carregando = TRUE]
            /\ rede' = Append(rede, Item("carregarTurma", "", caminho[3]))
       ELSE /\ pagina' = [pagina EXCEPT !.montada = TRUE]
            /\ UNCHANGED rede
  /\ UNCHANGED <<varsSessao, varsRota, servidor>>

\* the answer to the load: the fields are filled, or the feedback is an error
respostaCarregarTurma(i, ok) ==
  /\ i \in 1..Len(rede)
  /\ rede[i].op = "carregarTurma"
  /\ pagina' = (IF rede[i].orfao THEN pagina
                ELSE [pagina EXCEPT !.carregando = FALSE,
                                    !.feedback = IF ok /\ rede[i].id \in servidor
                                                   THEN @ ELSE "erro"])
  /\ rede' = Remover(rede, i)
  /\ UNCHANGED <<varsSessao, varsRota, servidor>>

\* lidarComSubmit up to the await
lidarComSubmit ==
  /\ pagina.tipo = "FormularioTurma"
  /\ pagina.montada
  /\ tela.elemento.outlet.corpo
  /\ ~pagina.carregando
  /\ Len(rede) < MaxRede
  /\ pagina' = [pagina EXCEPT !.carregando = TRUE, !.feedback = ""]
  /\ rede' = Append(rede, Item("salvar", "", ""))
  /\ UNCHANGED <<varsSessao, varsRota, servidor>>

\* lidarComSubmit after the await: on success setTimeout(() => navigate('/'), 1500)
respostaSalvar(i, ok) ==
  /\ i \in 1..Len(rede)
  /\ rede[i].op = "salvar"
  /\ pagina' = (IF rede[i].orfao THEN pagina
                ELSE IF ok THEN [pagina EXCEPT !.feedback = "sucesso"]
                ELSE [pagina EXCEPT !.feedback = "erro", !.carregando = FALSE])
  /\ rede' = (IF ok THEN Append(Remover(rede, i), [rede[i] EXCEPT !.op = "timerNavegar"])
              ELSE Remover(rede, i))
  /\ UNCHANGED <<varsSessao, varsRota, servidor>>

\* the timer of the submit fires: navigate('/')
timerNavegar(i) ==
  /\ i \in 1..Len(rede)
  /\ rede[i].op = "timerNavegar"
  /\ caminho' = Raiz
  /\ historico' = Empilhar(historico, caminho')
  /\ tela' = Renderizar(usuario, carregando, caminho')
  /\ erro' = ErroApos(tela')
  /\ carregandoLogin' = CarregandoLoginApos(tela')
  /\ IF ChaveDaPagina(caminho, tela) = ChaveDaPagina(caminho', tela')
       THEN /\ pagina' = pagina
            /\ rede' = Remover(rede, i)
       ELSE /\ pagina' = PaginaNova(ChaveDaPagina(caminho', tela'))
            /\ rede' = Orfaos(Remover(rede, i))
  /\ UNCHANGED <<localStorage, usuario, carregando, pc, pendente, chamadas, cheio, servidor>>

Next ==
  \/ restore
  \/ NavigateEfeito
  \/ FormularioTurmaEfeito
  \/ \E tipo \in {"PROFESSOR", "ACADEMICO"} : selecionarTipo(tipo)
  \/ handleSubmit
  \/ \E dados \in Identidades, montado \in BOOLEAN : handleSubmitSucesso(dados, montado)
  \/ \E status \in StatusDeErro, montado \in BOOLEAN : handleSubmitErro(status, montado)
  \/ handleLogout
  \/ \E to \in Caminhos : Link(to)
  \/ Voltar
  \/ \E p \in Caminhos : Recarregar(p)

Spec == Init /\ [][Next]_vars

SpecJusta == Spec /\ WF_vars(restore)

\* every effect a render leaves is run
SpecEfeitos ==
  Spec /\ WF_vars(restore) /\ WF_vars(NavigateEfeito) /\ WF_vars(FormularioTurmaEfeito)

\* the same program on a storage that may refuse writes
SpecCota == InitCota /\ [][Next]_vars

\* the program with the requests and the timers of its pages
InitPaginas ==
  /\ cheio = FALSE
  /\ servidor \in SUBSET IdsTurma
  /\ Montagem
  /\ caminho \in {Raiz, <<"turma", "nova">>}
  /\ localStorage \in {Vazio} \cup {setItem(Vazio, Chave, JSONstringify(i)) : i \in Identidades}

NextPaginas ==
  \/ restore
  \/ NavigateEfeito
  \/ FormularioTurmaEfeito
  \/ \E tipo \in {"PROFESSOR", "ACADEMICO"} : selecionarTipo(tipo)
  \/ handleSubmit
  \/ \E dados \in Identidades, montado \in BOOLEAN : handleSubmitSucesso(dados, montado)
  \/ \E status \in StatusDeErro, montado \in BOOLEAN : handleSubmitErro(status, montado)
  \/ handleLogout
  \/ \E to \in Caminhos : Link(to)
  \/ ListaTurmasEfeito
  \/ \E termo \in Termos : digitar(termo)
  \/ buscar
  \/ limpar
  \/ \E i \in 1..MaxRede : timerLimpar(i)
  \/ \E i \in 1..MaxRede, ok \in BOOLEAN : respostaLista(i, ok)
  \/ \E id \in IdsTurma, confirma \in BOOLEAN : lidarComExclusao(id, confirma)
  \/ \E i \in 1..MaxRede, ok \in BOOLEAN : respostaExcluir(i, ok)
  \/ \E id \in IdsTurma : lidarComMatricula(id)
  \/ \E i \in 1..MaxRede, ok \in BOOLEAN : respostaMatricula(i, ok)
  \/ FormularioTurmaCarregar
  \/ \E i \in 1..MaxRede, ok \in BOOLEAN : respostaCarregarTurma(i, ok)
  \/ lidarComSubmit
  \/ \E i \in 1..MaxRede, ok \in BOOLEAN : respostaSalvar(i, ok)
  \/ \E i \in 1..MaxRede : timerNavegar(i)

SpecPaginas == InitPaginas /\ [][NextPaginas]_vars

\* the pages of a user whose session is restored from the storage
InitLista ==
  /\ InitPaginas
  /\ localStorage # Vazio

AcaoDePagina ==
  \/ ListaTurmasEfeito
  \/ \E termo \in Termos : digitar(termo)
  \/ buscar
  \/ limpar
  \/ \E i \in 1..MaxRede : timerLimpar(i)
  \/ \E i \in 1..MaxRede, ok \in BOOLEAN : respostaLista(i, ok)
  \/ \E id \in IdsTurma, confirma \in BOOLEAN : lidarComExclusao(id, confirma)
  \/ \E i \in 1..MaxRede, ok \in BOOLEAN : respostaExcluir(i, ok)
  \/ \E id \in IdsTurma : lidarComMatricula(id)
  \/ \E i \in 1..MaxRede, ok \in BOOLEAN : respostaMatricula(i, ok)
  \/ FormularioTurmaCarregar
  \/ \E i \in 1..MaxRede, ok \in BOOLEAN : respostaCarregarTurma(i, ok)
  \/ lidarComSubmit
  \/ \E i \in 1..MaxRede, ok \in BOOLEAN : respostaSalvar(i, ok)
  \/ \E i \in 1..MaxRede : timerNavegar(i)

NextLista ==
  \/ restore
  \/ NavigateEfeito
  \/ FormularioTurmaEfeito
  \/ handleLogout
  \/ \E to \in Caminhos : Link(to)
  \/ AcaoDePagina

SpecLista == InitLista /\ [][NextLista]_vars

(***************************************************************************)
(* The guard as a function: every input, one evaluation                    *)
(***************************************************************************)
ValoresUsuario == {Nulo, Num(0), Num(7), Str("x"), Obj(<<>>), Professor, Academico}

InitGuarda ==
  /\ localStorage = Vazio
  /\ usuario \in ValoresUsuario
  /\ carregando \in BOOLEAN
  /\ pc = "avaliar"
  /\ caminho \in Caminhos
  /\ tela = [guarda |-> "NENHUMA", elemento |-> [pagina |-> "Nenhuma"]]
  /\ pendente = 0
  /\ chamadas = <<>>
  /\ cheio = FALSE
  /\ erro = ""
  /\ carregandoLogin = FALSE
  /\ historico = <<caminho>>
  /\ servidor = IdsTurma
  /\ pagina = SemPagina
  /\ rede = <<>>

Avaliar ==
  /\ pc = "avaliar"
  /\ tela' = Renderizar(usuario, carregando, caminho)
  /\ pc' = "avaliado"
  /\ UNCHANGED <<localStorage, usuario, carregando, caminho, pendente, chamadas,
                 cheio, erro, carregandoLogin, historico,
                 servidor, pagina, rede>>

NextGuarda == Avaliar

SpecGuarda == InitGuarda /\ [][NextGuarda]_vars

(***************************************************************************)
(* The route table as a function: every address, one render                *)
(***************************************************************************)
Segmentos == {"", "selecionar-tipo", "login", "LOGIN", "turma", "nova", "editar", "professor", "1"}

Enderecos == UNION {[1..n -> Segmentos] : n \in 0..MaxSegmentos}

InitRotas ==
  /\ localStorage = Vazio
  /\ usuario \in {Nulo, Professor}
  /\ carregando = FALSE
  /\ pc = "avaliar"
  /\ caminho \in Enderecos
  /\ tela = [guarda |-> "NENHUMA", elemento |-> [pagina |-> "Nenhuma"]]
  /\ pendente = 0
  /\ chamadas = <<>>
  /\ cheio = FALSE
  /\ erro = ""
  /\ carregandoLogin = FALSE
  /\ historico = <<caminho>>
  /\ servidor = IdsTurma
  /\ pagina = SemPagina
  /\ rede = <<>>

SpecRotas == InitRotas /\ [][NextGuarda]_vars

(***************************************************************************)
(* useAuth as a function: a consumer inside or outside the provider        *)
(***************************************************************************)
\* createContext(null): what useContext yields where no provider is above
ContextoPadrao == Nulo

\* the value AuthProvider gives to its Provider: an object in every state
ValorDoProvider(u, c) == [t |-> "object", usuario |-> u, carregando |-> c]

\* useContext(AuthContext)
useContext(dentro, u, c) == IF dentro THEN ValorDoProvider(u, c) ELSE ContextoPadrao

\* mutant: the context is returned unchecked
useAuthSemVerificar(context) == [lancou |-> FALSE, valor |-> context]

\* useAuth: lancou stands for the Error it throws
useAuth(context) ==
  IF ~Truthy(context)
    THEN [lancou |-> TRUE, valor |-> Str("useAuth deve ser usado dentro de um AuthProvider")]
    ELSE [lancou |-> FALSE, valor |-> context]

\* a component that calls useAuth, not rendered yet
Consumidor(dentro) == [pagina |-> "Consumidor", dentro |-> dentro]

\* the provider before its mount effect, after it, or after a login or a
\* logout, over every storage
InitUseAuth ==
  /\ localStorage \in ArmazenamentosIniciais
  /\ carregando \in BOOLEAN
  /\ usuario \in (IF carregando THEN {Nulo}
                   ELSE {RestaurarUsuario(localStorage, Nulo), Nulo} \cup Identidades)
  /\ pc = "avaliar"
  /\ caminho = Raiz
  /\ tela \in {[guarda |-> "NENHUMA", elemento |-> Consumidor(dentro)] : dentro \in BOOLEAN}
  /\ pendente = 0
  /\ chamadas = <<>>
  /\ cheio = FALSE
  /\ erro = ""
  /\ carregandoLogin = FALSE
  /\ historico = <<caminho>>
  /\ servidor = IdsTurma
  /\ pagina = SemPagina
  /\ rede = <<>>

\* the component is rendered: it calls useAuth
Consumir ==
  /\ pc = "avaliar"
  /\ tela.elemento.pagina = "Consumidor"
  /\ tela' = [guarda |-> "NENHUMA",
              elemento |-> [pagina |-> "Consumidor",
                            dentro |-> tela.elemento.dentro,
                            resultado |-> useAuth(useContext(tela.elemento.dentro,
                                                             usuario, carregando))]]
  /\ pc' = "avaliado"
  /\ UNCHANGED <<localStorage, usuario, carregando, caminho, pendente, chamadas,
                 cheio, erro, carregandoLogin, historico,
                 servidor, pagina, rede>>

NextUseAuth == Consumir

SpecUseAuth == InitUseAuth /\ [][NextUseAuth]_vars

(***************************************************************************)
(* Properties                                                              *)
(***************************************************************************)
ChaveAusente(ls) == Chave \notin DOMAIN ls

\* the call before the latest one, and the latest one
Penultima == chamadas[Len(chamadas) - 1]

Ultima == chamadas[Len(chamadas)]

\* C1: while carregando is true, every evaluation of the guard yields
\* SHOW_LOADING and shows the spinner, whatever the identity and the route.
C1_CarregandoMostraSpinner ==
  (pc = "avaliado" /\ carregando /\ tela.guarda # "NENHUMA")
    => (tela.guarda = "SHOW_LOADING" /\ tela.elemento = Spinner)

C1_Testemunha ==
  /\ pc = "avaliado" /\ carregando /\ usuario = Professor /\ caminho = <<"turma", "nova">>
  /\ tela.guarda = "SHOW_LOADING"

\* C2: the guard redirects to /selecionar-tipo exactly when carregando is
\* false, the route is guarded and there is no identity; in every other case
\* with carregando false the route's own element is rendered.
C2_RedirectSse ==
  pc = "avaliado" =>
    LET protegida == Protegida(CasarRota(caminho))
        redirect  == ~carregando /\ protegida /\ ~Truthy(usuario)
    IN /\ (tela.guarda = "REDIRECT") <=> redirect
       /\ (tela.elemento = Navigate(SelecionarTipoPath)) <=> redirect
       /\ (~carregando /\ ~redirect) =>
            /\ tela.elemento # Spinner
            /\ protegida => (tela.guarda = "RENDER" /\ tela.elemento.pagina = "LayoutBase")
            /\ ~protegida => tela.guarda = "NENHUMA"

C2_Testemunha ==
  /\ pc = "avaliado" /\ ~carregando /\ usuario = Nulo /\ caminho = Raiz
  /\ tela.guarda = "REDIRECT"

\* C3: started at the root path with a teacher's identity stored, the guard
\* decides SHOW_LOADING on the first render and RENDER on the render that
\* follows the mount effect: the listing inside the layout, with the create
\* link; no render in between decides REDIRECT.
C3_CenarioB ==
  [][(restore /\ caminho = Raiz /\ getItem(localStorage, Chave).t = "texto"
        /\ localStorage[Chave] = JSONstringify(Professor))
      => /\ tela.guarda = "SHOW_LOADING"
         /\ tela'.guarda = "RENDER"
         /\ tela'.elemento.pagina = "LayoutBase"
         /\ tela'.elemento.outlet.pagina = "ListaTurmas"
         /\ tela'.elemento.linkCriar
         /\ usuario' = Professor]_vars

C3_Testemunha ==
  /\ Len(chamadas) = 1 /\ Ultima.op = "restore"
  /\ caminho = Raiz /\ usuario = Professor
  /\ tela.guarda = "RENDER" /\ tela.elemento.linkCriar

\* C4: started at the root path with nothing stored, the guard decides
\* SHOW_LOADING on the first render and REDIRECT to /selecionar-tipo on the
\* render that follows the mount effect; the redirect then leads there, and
\* the protected page is not rendered on the way.
C4_CenarioA ==
  [][/\ (restore /\ caminho = Raiz /\ ChaveAusente(localStorage))
          => /\ tela.guarda = "SHOW_LOADING"
             /\ tela'.guarda = "REDIRECT"
             /\ tela'.elemento = Navigate(SelecionarTipoPath)
     /\ (NavigateEfeito /\ tela.guarda = "REDIRECT")
          => /\ caminho' = SelecionarTipoPath
             /\ tela'.elemento.pagina = "SelecionarTipo"]_vars

C4_Testemunha ==
  /\ Len(chamadas) = 1 /\ Ultima.op = "restore"
  /\ ChaveAusente(localStorage) /\ usuario = Nulo
  /\ caminho = SelecionarTipoPath /\ tela.elemento.pagina = "SelecionarTipo"

\* C5: whatever malformed text is stored under the key, the mount effect
\* ends with no identity in memory and the key removed.
C5_MalformadoRemovido ==
  [][(restore /\ ~ChaveAusente(localStorage) /\ localStorage[Chave] \in TextosMalformados)
      => (usuario' = Nulo /\ ChaveAusente(localStorage'))]_vars

C7_CarregandoUmaVez ==
  /\ carregando = TRUE
  /\ [][/\ pc' = "montando" => carregando'
        /\ (~carregando /\ pc' = "pronto") => ~carregando'
        /\ (carregando /\ ~carregando') => (pc = "montando" /\ pc' = "pronto")]_vars

C7_Testemunha ==
  /\ ~carregando /\ pc = "pronto"
  /\ Len(chamadas) = 2 /\ Penultima.op = "login" /\ Ultima.op = "logout"

\* C8: after login(I) followed by logout() there is no identity in memory
\* and the key is absent from the storage, for every I.
C8_LoginLogout ==
  (Len(chamadas) >= 2 /\ Penultima.op = "login" /\ Ultima.op = "logout")
    => (usuario = Nulo /\ ChaveAusente(localStorage))

C8_Testemunha ==
  /\ Len(chamadas) >= 2 /\ Penultima.op = "login" /\ Ultima.op = "logout"
  /\ Penultima.dadosUsuario = Academico
  /\ usuario = Nulo /\ caminho = SelecionarTipoPath

\* C9: after login(I) with no logout since, the mount effect of the next
\* process puts I back in memory.
C9_LoginRestaura ==
  (pc = "pronto" /\ Len(chamadas) >= 2 /\ Penultima.op = "login" /\ Ultima.op = "restore")
    => usuario = Penultima.dadosUsuario

C9_Testemunha ==
  /\ pc = "pronto" /\ Len(chamadas) >= 2 /\ Penultima.op = "login" /\ Ultima.op = "restore"
  /\ Penultima.dadosUsuario = Professor /\ usuario = Professor

\* C10: once the mount effect has run, running it again would change
\* neither the identity in memory nor carregando.
C10_RestoreIdempotente ==
  pc = "pronto" =>
    /\ RestaurarUsuario(localStorage, usuario) = usuario
    /\ carregando = FALSE

C10_Testemunha ==
  /\ pc = "pronto" /\ usuario = Academico
  /\ Len(chamadas) >= 1 /\ Ultima.op = "login"
  /\ Chave \in DOMAIN localStorage

\* C11: when the write of the key fails inside login, the answer of the
\* server still ends with the identity in memory, no message on the Login
\* screen and the location at the root path.
C11_EscritaFalhaNaoAparece ==
  [][\A dados \in Identidades :
       (cheio /\ handleSubmitSucesso(dados, TRUE))
         => (usuario' = dados /\ erro' = "" /\ caminho' = Raiz)]_vars

\* C12 as stated: every login request that fails leaves the identity, the
\* key and the location as they were and puts a message on the screen.
C12_FalhaSempreMostraErro ==
  [][\A status \in StatusDeErro, montado \in BOOLEAN :
       handleSubmitErro(status, montado)
         => /\ usuario' = usuario
            /\ localStorage' = localStorage
            /\ caminho' = caminho /\ historico' = historico
            /\ erro' \in {Msg401, MsgServidor}]_vars

\* C12: a login request that fails leaves the identity, the key, the
\* location and the history as they were; the Login that sent it shows the
\* message of a 401 or the one of any other failure if it is still mounted,
\* and nothing is shown when the user has left that Login before the answer.
C12_FalhaDeLogin ==
  [][\A status \in StatusDeErro, montado \in BOOLEAN :
       handleSubmitErro(status, montado)
         => /\ usuario' = usuario
            /\ localStorage' = localStorage
            /\ caminho' = caminho /\ historico' = historico
            /\ tela' = tela
            /\ montado => /\ tela.elemento.pagina = "Login"
                          /\ erro' = (IF status = 401 THEN Msg401 ELSE MsgServidor)
            /\ ~montado => erro' = erro]_vars

C12_Testemunha ==
  /\ erro = Msg401 /\ ~carregandoLogin /\ pendente = 0
  /\ tela.elemento.pagina = "Login" /\ caminho = <<"login", "professor">>
  /\ usuario = Nulo /\ ChaveAusente(localStorage)

\* C13: the layout, and with it the listing, the create page and the edit
\* page, is on the screen only when carregando is false and the identity is
\* neither null nor falsy; on a guarded route with carregando true or no
\* identity the screen is the spinner or the redirect.
C13_PaginaProtegida ==
  /\ tela.elemento.pagina \in {"LayoutBase", "ListaTurmas", "FormularioTurma"}
       => /\ ~carregando /\ usuario # Nulo /\ Truthy(usuario)
          /\ tela.guarda = "RENDER"
          /\ tela.elemento.pagina = "LayoutBase"
          /\ Protegida(CasarRota(caminho))
  /\ (Protegida(CasarRota(caminho)) /\ (carregando \/ usuario = Nulo))
       => tela.elemento.pagina \in {"Carregando", "Navigate"}

C13_Testemunha ==
  /\ tela.elemento.pagina = "LayoutBase" /\ tela.elemento.outlet.pagina = "FormularioTurma"
  /\ caminho = <<"turma", "editar", "1">> /\ usuario = Professor
  /\ Len(chamadas) = 2 /\ Penultima.op = "logout" /\ Ultima.op = "login"

\* C14: ehProfessor() and ehAcademico() are never both true, and both are
\* false while there is no identity.
C14_PapeisExclusivos ==
  /\ ~(ehProfessor(usuario) /\ ehAcademico(usuario))
  /\ usuario = Nulo => (~ehProfessor(usuario) /\ ~ehAcademico(usuario))

C14_Testemunha ==
  /\ pc = "pronto" /\ usuario = Academico
  /\ ehAcademico(usuario) /\ ~ehProfessor(usuario)
  /\ Len(chamadas) = 2 /\ Penultima.op = "restore" /\ Ultima.op = "login"

\* C15: while an identity is held, no step changes its role: a step that
\* starts and ends with an identity in memory keeps tipoUsuario.
C15_PapelImutavel ==
  [][(usuario \in Identidades /\ usuario' # Nulo)
       => Campo(usuario', "tipoUsuario") = Campo(usuario, "tipoUsuario")]_vars

\* C16: the create link, the form and the edit, delete and export controls
\* are on the screen only while the identity is a teacher's, the enroll
\* control only while it is a student's; so the form's own redirect never
\* starts from a screen that shows the form.
C16_UIRestrita ==
  tela.elemento.pagina = "LayoutBase" =>
    LET e == tela.elemento
    IN /\ e.linkCriar => (usuario # Nulo /\ ehProfessor(usuario))
       /\ (e.outlet.pagina = "FormularioTurma" /\ e.outlet.corpo)
            => (usuario # Nulo /\ ehProfessor(usuario))
       /\ (e.outlet.pagina = "ListaTurmas" /\ e.outlet.professor)
            => (usuario # Nulo /\ ehProfessor(usuario))
       /\ (e.outlet.pagina = "ListaTurmas" /\ e.outlet.academico) => ehAcademico(usuario)
       /\ (e.outlet.pagina = "FormularioTurma" /\ (~Truthy(usuario) \/ ~ehProfessor(usuario)))
            => ~e.outlet.corpo

C16_Testemunha ==
  /\ tela.elemento.pagina = "LayoutBase" /\ tela.elemento.outlet.pagina = "ListaTurmas"
  /\ usuario = Academico /\ tela.elemento.outlet.academico
  /\ ~tela.elemento.outlet.professor /\ ~tela.elemento.linkCriar
  /\ Len(chamadas) >= 1 /\ Ultima.op = "login" /\ caminho = Raiz

\* the page-local gate applies: an identity that is not a teacher's is in
\* memory and the location is the create route or an edit route
C17_NaoProfessorNoFormulario ==
  /\ pc = "pronto" /\ Truthy(usuario) /\ ~ehProfessor(usuario)
  /\ CasarRota(caminho) \in {"turma/nova", "turma/editar/:idTurma"}

\* C17: while a logged-in user who is not a teacher is on the create route
\* or an edit route the form is not on the screen, and from there the
\* location becomes the root path with the listing shown, unless the page
\* is loaded anew first.
C17_NaoProfessorRedirecionado ==
  /\ [](C17_NaoProfessorNoFormulario
          => (tela.elemento.pagina = "LayoutBase" /\ ~tela.elemento.outlet.corpo))
  /\ C17_NaoProfessorNoFormulario
       ~> \/ /\ caminho = Raiz
             /\ tela.elemento.pagina = "LayoutBase"
             /\ tela.elemento.outlet.pagina = "ListaTurmas"
          \/ pc = "montando"

C17_Testemunha ==
  /\ usuario = Academico /\ pc = "pronto"
  /\ Len(historico) = 2 /\ historico[1] = <<"turma", "nova">> /\ historico[2] = Raiz
  /\ caminho = Raiz /\ tela.elemento.outlet.pagina = "ListaTurmas"
  /\ Len(chamadas) = 2 /\ Penultima.op = "login" /\ Ultima.op = "restore"

\* the address in the state, without the slashes at its end, and the five
\* patterns of the claim, compared as the router compares them
C18_Endereco == Normalizar(caminho)

C18_Padroes ==
  LET q == C18_Endereco
  IN << Len(q) = 1 /\ toLowerCase(q[1]) = "selecionar-tipo",
        Len(q) = 2 /\ toLowerCase(q[1]) = "login" /\ q[2] # "",
        Len(q) = 0,
        Len(q) = 2 /\ toLowerCase(q[1]) = "turma" /\ toLowerCase(q[2]) = "nova",
        Len(q) = 3 /\ toLowerCase(q[1]) = "turma" /\ toLowerCase(q[2]) = "editar" /\ q[3] # "" >>

\* C18: an address that matches none of the five patterns is rendered by
\* the wildcard route as a replacing redirect to the root path; an address
\* that matches one of them matches no other and is rendered by that route,
\* never by the wildcard.
C18_TabelaDeRotas ==
  pc = "avaliado" =>
    LET casam == {i \in 1..5 : C18_Padroes[i]}
    IN /\ Cardinality(casam) <= 1
       /\ casam = {} =>
            /\ CasarRota(caminho) = "*"
            /\ tela.guarda = "NENHUMA"
            /\ tela.elemento = [pagina |-> "Navigate", to |-> Raiz, replace |-> TRUE]
       /\ \A i \in casam :
            /\ CasarRota(caminho) = Rotas[i].nome
            /\ tela.elemento.pagina
                 = (CASE i = 1 -> "SelecionarTipo"
                      [] i = 2 -> "Login"
                      [] OTHER -> IF usuario = Nulo THEN "Navigate" ELSE "LayoutBase")
            /\ tela.elemento.pagina = "Navigate" => tela.elemento.to = SelecionarTipoPath

C18_Testemunha ==
  /\ pc = "avaliado" /\ caminho = <<"turma", "editar", "">>
  /\ tela.elemento.pagina = "Navigate" /\ tela.elemento.to = Raiz /\ usuario = Professor

C20_UseAuthLanca ==
  pc = "avaliado" =>
    /\ tela.elemento.resultado.lancou <=> ~tela.elemento.dentro
    /\ tela.elemento.dentro
         => tela.elemento.resultado.valor = ValorDoProvider(usuario, carregando)

C20_Testemunha ==
  /\ pc = "avaliado" /\ ~tela.elemento.dentro /\ tela.elemento.resultado.lancou
  /\ usuario = Professor /\ ~carregando

(***************************************************************************)
(* Claims about the pages                                                  *)
(***************************************************************************)
\* C21: only login, logout and the restore on mount change the identity in
\* memory or the stored slot: a step that changes either one is a step that
\* records one of these calls, so every operation of the pages (list load,
\* search, delete, enrol, form load and submit, navigation, failed login)
\* leaves both as they were; and the storage never holds a key other than
\* the fixed one.
C21_SoASessaoMudaIdentidade ==
  [][ /\ (usuario' # usuario \/ localStorage' # localStorage) => chamadas' # chamadas
      /\ DOMAIN localStorage' \subseteq {Chave} ]_vars

C21_Testemunha ==
  /\ pagina.tipo = "ListaTurmas"
  /\ pagina.turmas = IdsTurma /\ pagina.loading
  /\ servidor = {}
  /\ Len(rede) = 1 /\ rede[1].op = "listarTodas"
  /\ usuario = Professor
  /\ getItem(localStorage, Chave) = [t |-> "texto", texto |-> JSONstringify(Professor)]

\* C22: login and logout are atomic for the guard: in every state in which
\* the guard is evaluated or a page is rendered after a login, the identity
\* in memory and the stored slot are both those of that login; after a
\* logout both are gone; and the screen is the one the guard yields for the
\* identity in memory, never one computed from a half-done call.
C22_LoginLogoutAtomicos ==
  (pc = "pronto" /\ Len(chamadas) >= 1) =>
    /\ Ultima.op = "login" =>
         /\ usuario = Ultima.dadosUsuario
         /\ getItem(localStorage, Chave) =
              [t |-> "texto", texto |-> JSONstringify(Ultima.dadosUsuario)]
    /\ Ultima.op = "logout" => (usuario = Nulo /\ ChaveAusente(localStorage))
    /\ tela = Renderizar(usuario, carregando, caminho)

C22_Testemunha ==
  /\ pc = "pronto" /\ Len(chamadas) >= 2
  /\ Penultima.op = "logout" /\ Ultima.op = "login" /\ Ultima.dadosUsuario = Professor
  /\ usuario = Professor
  /\ tela.elemento.pagina = "LayoutBase" /\ tela.guarda = "RENDER"

\* C23: the answer to a failed list or search request leaves the list the
\* page holds as it was and sets the error message; the answer to a failed
\* delete or enrol request leaves the list, and the rest of the page, as it
\* was.
C23_FalhaPreservaLista ==
  [][\A i \in 1..MaxRede :
       /\ respostaLista(i, FALSE) => (pagina'.turmas = pagina.turmas /\ pagina'.erro)
       /\ (respostaExcluir(i, FALSE) \/ respostaMatricula(i, FALSE)) => pagina' = pagina]_vars

C23_Testemunha ==
  /\ pagina.tipo = "ListaTurmas"
  /\ pagina.ultima.estado = "falhou"
  /\ pagina.erro /\ ~pagina.loading
  /\ pagina.turmas = IdsTurma
  /\ rede = <<>>

\* the steps in which the mounted ListaTurmas runs carregarTurmas
Carga ==
  \/ ListaTurmasEfeito
  \/ buscar
  \/ \E i \in 1..MaxRede :
       /\ i <= Len(rede)
       /\ ~rede[i].orfao
       /\ (timerLimpar(i) \/ respostaExcluir(i, TRUE) \/ respostaMatricula(i, TRUE))

\* C24: every load asks the server for the search by name with the term
\* the field holds at that moment when it is not empty, and for the whole
\* list when it is empty; a successful answer replaces the list by exactly
\* the sections of the answer; and once the latest load was answered with
\* no section, the page shows the empty-state message and no error.
C24_CargaUsaTermoAtual ==
  [][ /\ Carga => (Len(rede') >= 1 /\ rede'[Len(rede')] = PedidoDeLista(pagina.termoBusca, FALSE))
      /\ \A i \in 1..MaxRede :
           respostaLista(i, TRUE) => pagina'.turmas = DadosDe(rede[i], servidor)
      /\ (pagina'.tipo = "ListaTurmas" /\ pagina'.ultima = [estado |-> "ok", dados |-> {}])
           => (pagina'.turmas = {} /\ ~pagina'.erro /\ ~pagina'.loading) ]_vars

\* the delete requests in flight
Exclusoes(r) == {i \in 1..Len(r) : r[i].op = "excluir"}

\* C25: a delete request leaves only after the user confirmed; declining
\* issues no request and leaves the list as it was; the answer to a
\* successful delete issues a reload at once, and the server that answers
\* that reload no longer has the deleted section, nor gets it back.
C25_ExclusaoConfirmada ==
  [][ /\ \A id \in IdsTurma :
           lidarComExclusao(id, FALSE) => (rede' = rede /\ pagina'.turmas = pagina.turmas)
      /\ Cardinality(Exclusoes(rede')) > Cardinality(Exclusoes(rede))
           => \E id \in IdsTurma : lidarComExclusao(id, TRUE)
      /\ \A i \in 1..MaxRede :
           (i <= Len(rede) /\ ~rede[i].orfao /\ respostaExcluir(i, TRUE)) =>
             /\ Len(rede') >= 1
             /\ rede'[Len(rede')].op \in {"listarTodas", "buscarPorNome"}
             /\ rede'[Len(rede')].ultimo
             /\ rede[i].id \notin DadosDe(rede'[Len(rede')], servidor')
      /\ servidor' \subseteq servidor ]_vars

C25_Testemunha ==
  /\ pagina.tipo = "ListaTurmas"
  /\ pagina.ultima.estado = "pendente"
  /\ pagina.turmas = IdsTurma /\ pagina.loading /\ ~pagina.erro
  /\ servidor = {}
  /\ Len(rede) = 1 /\ rede[1].op \in {"listarTodas", "buscarPorNome"} /\ rede[1].ultimo
  /\ tela.elemento.outlet.professor

\* C26: clicking Limpar with a term in the field empties the term, and the
\* reload the click schedules asks for the whole list, never for a search
\* with the term that was cleared.
C26_LimparRecarregaTudo ==
  [][ /\ limpar => pagina'.termoBusca = ""
      /\ \A i \in 1..MaxRede :
           (i <= Len(rede) /\ timerLimpar(i)) =>
             /\ Len(rede') >= 1
             /\ rede'[Len(rede')].op = "listarTodas" ]_vars

\* the list and search requests of the mounted page still in flight
CargasEmVoo == {i \in 1..Len(rede) : rede[i].op \in {"listarTodas", "buscarPorNome"}}

\* C27: with overlapping list and search requests answered in any order,
\* the page shows loading as long as one of them is in flight, and once all
\* are answered the list is the answer to the request issued last and the
\* error is shown exactly when that request failed.
C27_UltimoPedidoVence ==
  (pagina.tipo = "ListaTurmas" /\ pagina.montada) =>
    /\ CargasEmVoo # {} => pagina.loading
    /\ (CargasEmVoo = {} /\ pagina.ultima.estado = "ok")
         => (pagina.turmas = pagina.ultima.dados /\ ~pagina.erro)
    /\ (CargasEmVoo = {} /\ pagina.erro) => pagina.ultima.estado = "falhou"

\* C28: once the mount effect has run, in every state login, logout and the
\* mount effect lead to, there is an identity in memory exactly when the
\* key is in the storage, and the stored text then decodes to that identity.
C28_MemoriaIgualAoSlot ==
  pc = "pronto" =>
    /\ (usuario # Nulo) <=> ~ChaveAusente(localStorage)
    /\ ~ChaveAusente(localStorage) =>
         /\ JSONparse[localStorage[Chave]].ok
         /\ JSONparse[localStorage[Chave]].valor = usuario

\* C29: the navigation to the root path that a successful submit schedules
\* is performed only while the form that scheduled it is still the current
\* page: when the user went elsewhere or logged out during the delay, the
\* timer changes neither the location nor the history.
C29_NavegacaoSoDoFormulario ==
  [][\A i \in 1..MaxRede :
       (i <= Len(rede) /\ timerNavegar(i))
         => (~rede[i].orfao \/ (caminho' = caminho /\ historico' = historico))]_vars

\* C30: every link a guarded page shows leads to a declared route other
\* than the wildcard; in particular the Comunicacao link of a card on the
\* screen leads to a route of its own.
C30_LinksTemRota ==
  (pc = "pronto" /\ tela.elemento.pagina = "LayoutBase") =>
    /\ \A to \in {Raiz, <<"turma", "nova">>} \cap Links(tela) : CasarRota(to) # "*"
    /\ \A id \in IdsTurma :
         CardVisivel(id) =>
           /\ <<"turma", "comunicacao", id>> \in Links(tela)
           /\ CasarRota(<<"turma", "comunicacao", id>>) # "*"
           /\ tela.elemento.outlet.professor => CasarRota(<<"turma", "editar", id>>) # "*"

====
